---------------------------- MODULE Spec2Model ----------------------------
(***************************************************************************)
(* A model of wandb_eval.py, the MicroRTS benchmark harness: the build     *)
(* stage, the match schedule of main(), parse_result and summarize.        *)
(*                                                                         *)
(* Four specifications share the variables:                                *)
(*   Spec      one run of main(), from the parsed arguments to its end.    *)
(*   SpecMatch the run from the entry of the match loops, after a build    *)
(*             that succeeded, on longer schedules.                        *)
(*   SpecParse parse_result applied to a captured output.                  *)
(*   SpecSum   summarize applied to a list of match records.               *)
(***************************************************************************)
EXTENDS Integers, Sequences, FiniteSets, TLC

VARIABLES
    pc,             \* position of main(): the statement about to run
    err,            \* the exception that ended the run ("" while none)
    microrts_dir,   \* args.microrts_dir
    bot_source,     \* args.bot_source
    no_rebuild,     \* args.no_rebuild_bot_jar
    skip_copy,      \* args.skip_copy_bot_jar
    bot_class,      \* args.bot_class, a string of characters
    engine_bin,     \* files of microrts/bin
    build_dir,      \* repo/build_bot: [exists, files]
    jar,            \* repo/<bot jar>: [exists, entries]
    bots_lib,       \* microrts/lib/bots/<bot jar>: [exists, entries]
    eval_bin,       \* repo/eval/bin: [exists, files]
    removed,        \* the files this run deleted with rmtree or unlink
    map_paths,      \* the resolved map list
    selected_keys,  \* the opponent keys of the run
    rounds,         \* args.rounds
    tracking,       \* the calls made to the tracking service, in order
    all_rows,       \* the match records
    match_index,    \* the counter of line 372
    oi, mi, ri,     \* loop positions: opponent, map (1-based), round
    invoked,        \* the match invocations made, in order
    summary_rows,   \* summarize(all_rows) of line 450
    csv,            \* the report files written by this run
    p_out,          \* SpecParse: the captured output, a sequence of lines
    p_res,          \* SpecParse: what parse_result gave
    s_rows,         \* SpecSum: the input list
    s_res           \* SpecSum: what summarize gave

mainVars == <<pc, err, microrts_dir, bot_source, no_rebuild, skip_copy,
              bot_class, engine_bin, build_dir, jar, bots_lib, eval_bin,
              removed, map_paths, selected_keys, rounds, tracking, all_rows,
              match_index, oi, mi, ri, invoked, summary_rows, csv>>
parseVars == <<p_out, p_res>>
sumVars == <<s_rows, s_res>>
vars == <<mainVars, parseVars, sumVars>>

-----------------------------------------------------------------------------
(* Bounds of the model.                                                    *)

MaxTokens == 2      \* comma separated tokens of --opponents and of --maps
MaxRounds == 2      \* largest --rounds
MaxMatches == 2     \* largest schedule (2 * rounds * maps * opponents) of Spec
MaxSchedule == 8    \* largest schedule of SpecMatch
MaxLines == 3       \* lines of a captured match output
MaxRows == 3        \* records handed to summarize on its own

-----------------------------------------------------------------------------
(* Strings whose characters the code inspects are sequences of characters. *)

RECURSIVE SeqSum(_)
SeqSum(s) == IF s = <<>> THEN 0 ELSE Head(s) + SeqSum(Tail(s))

Range(s) == {s[i] : i \in 1..Len(s)}

DotClass == <<".", "c", "l", "a", "s", "s">>

\* str.replace(".", "/") of line 55
ReplaceDots(s) == [i \in 1..Len(s) |-> IF s[i] = "." THEN "/" ELSE s[i]]

class_to_jar_entry_nodots(class_name) == class_name \o DotClass

class_to_jar_entry(class_name) == ReplaceDots(class_name) \o DotClass


-----------------------------------------------------------------------------
(* parse_result (lines 131-141).                                           *)
(*                                                                         *)
(* A line of the captured output is described by what the code asks of it: *)
(*   brace  whether line.strip() starts with "{"                           *)
(*   text   whether the line contains the characters "winner" in quotes    *)
(*   json   what json.loads(line) does: "object" (a dict) or "invalid"     *)
(*   obj    the values of that dict under winner, cycles and game_over     *)
(* A JSON value is [t, v]: int (v), float (v tenths), bool (v is 0 or 1),  *)
(* null, str_num (a string holding the integer v), str_text (any other     *)
(* non-empty string), absent (no such key).                                *)

JInt(n) == [t |-> "int", v |-> n]
JFloat(tenths) == [t |-> "float", v |-> tenths]
JBool(b) == [t |-> "bool", v |-> b]
JNull == [t |-> "null", v |-> 0]
JStrNum(n) == [t |-> "str_num", v |-> n]
JStrText == [t |-> "str_text", v |-> 0]
JAbsent == [t |-> "absent", v |-> 0]

NoObj == [winner |-> JAbsent, cycles |-> JAbsent, game_over |-> JAbsent]

ResultObj(w, c, g) == [winner |-> w, cycles |-> c, game_over |-> g]

Line(b, t, j, o) == [brace |-> b, text |-> t, json |-> j, obj |-> o]

\* Game started
LNoise == Line(FALSE, FALSE, "invalid", NoObj)
\* result: {"winner":1}
LPrefixed == Line(FALSE, TRUE, "invalid", NoObj)
\* {"status":"ok"}
LOtherObj == Line(TRUE, FALSE, "object", NoObj)
\* {"\u0077inner":0,"cycles":340,"game_over":true}, the key spelt with an escape
LEscaped == Line(TRUE, FALSE, "object", ResultObj(JInt(0), JInt(340), JBool(1)))
\* {"winner": 1, "cycles
LMalformed == Line(TRUE, TRUE, "invalid", NoObj)
\* {"note":"winner"}
LMention == Line(TRUE, TRUE, "object", NoObj)
\* {"winner":1}
LPartial == Line(TRUE, TRUE, "object", ResultObj(JInt(1), JAbsent, JAbsent))
\* {"winner":w,"cycles":c,"game_over":g}
LResult(w, c, g) == Line(TRUE, TRUE, "object", ResultObj(w, c, g))

CycleValues == {340}

ResultLines ==
    {LResult(JInt(w), JInt(c), JBool(1)) : w \in {-1, 0, 1}, c \in CycleValues}

ParseLines ==
    ResultLines \cup
    { LNoise, LPrefixed, LOtherObj, LEscaped, LMalformed, LMention, LPartial,
      LResult(JInt(1), JInt(12), JBool(0)),
      LResult(JFloat(15), JStrNum(7), JNull),
      LResult(JNull, JInt(340), JBool(1)),
      LResult(JInt(0), JStrText, JBool(1)) }

\* int(x) of lines 137-138: the value, or the exception it raises
PyIntErr(j) ==
    CASE j.t = "absent" -> "KeyError"
      [] j.t = "null" -> "TypeError"
      [] j.t = "str_text" -> "ValueError(int)"
      [] OTHER -> ""

PyInt(j) ==
    CASE j.t = "float" -> IF j.v >= 0 THEN j.v \div 10 ELSE -((-j.v) \div 10)
      [] OTHER -> j.v

\* bool(x) of line 139
PyBoolErr(j) == IF j.t = "absent" THEN "KeyError" ELSE ""

PyBool(j) ==
    CASE j.t \in {"int", "float", "bool"} -> j.v # 0
      [] j.t = "null" -> FALSE
      [] OTHER -> TRUE

Raised(e) ==
    [ok |-> FALSE, err |-> e, winner |-> 0, cycles |-> 0, game_over |-> FALSE]

Returned(w, c, g) ==
    [ok |-> TRUE, err |-> "", winner |-> w, cycles |-> c, game_over |-> g]

NoJSONResult == "ValueError(No JSON result found)"

\* the test of line 134
IsCandidate(line) == line.brace /\ line.text

\* lines 135-140: json.loads, then the dict literal, evaluated left to right
Decode(line) ==
    IF line.json = "invalid" THEN Raised("JSONDecodeError")
    ELSE IF PyIntErr(line.obj.winner) # "" THEN Raised(PyIntErr(line.obj.winner))
    ELSE IF PyIntErr(line.obj.cycles) # "" THEN Raised(PyIntErr(line.obj.cycles))
    ELSE IF PyBoolErr(line.obj.game_over) # ""
         THEN Raised(PyBoolErr(line.obj.game_over))
    ELSE Returned(PyInt(line.obj.winner), PyInt(line.obj.cycles),
                  PyBool(line.obj.game_over))

\* the loop of line 132 over reversed(lines), at line i
RECURSIVE ScanReversed(_, _)
ScanReversed(lines, i) ==
    IF i = 0 THEN Raised(NoJSONResult)
    ELSE IF IsCandidate(lines[i]) THEN Decode(lines[i])
    ELSE ScanReversed(lines, i - 1)

RECURSIVE ScanForward(_, _)
ScanForward(lines, i) ==
    IF i > Len(lines) THEN Raised(NoJSONResult)
    ELSE IF IsCandidate(lines[i]) THEN Decode(lines[i])
    ELSE ScanForward(lines, i + 1)

parse_result_first(stdout) == ScanForward(stdout, 1)

parse_result(stdout) == ScanReversed(stdout, Len(stdout))

-----------------------------------------------------------------------------
(* summarize (lines 179-206).                                              *)
(*                                                                         *)
(* win_rate and score are kept in units of 1/10000 and avg_cycles in units *)
(* of 1/100, which is what round(x, 4) and round(x, 2) leave of them.      *)

BENCHMARKS ==
    [k \in {"random", "worker_rush", "light_rush", "naive_mcts", "mayari", "coac"}
       |-> CASE k = "random" -> "ai.RandomAI"
             [] k = "worker_rush" -> "ai.abstraction.WorkerRush"
             [] k = "light_rush" -> "ai.abstraction.LightRush"
             [] k = "naive_mcts" -> "ai.mcts.naivemcts.NaiveMCTS"
             [] k = "mayari" -> "mayariBot.mayari"
             [] k = "coac" -> "ai.coac.CoacAI"]

\* the strings the model compares, in the order of Python's str comparison
StrOrder ==
    <<"bogus", "coac", "light_rush", "mayari", "naive_mcts", "random",
      "worker_rush">>

StrRank(s) == CHOOSE i \in 1..Len(StrOrder) : StrOrder[i] = s

StrLess(a, b) == StrRank(a) < StrRank(b)

\* round(num / den, digits) for den > 0, in units of 10^-digits (scale is
\* 10^digits): the nearest unit, an exact half going to the even one.  With
\* fewer than 8 games no quotient of summarize is an exact half.
RoundDiv(num, den, scale) ==
    LET n == num * scale
        q == n \div den
        r == n % den
    IN  IF 2 * r < den THEN q
        ELSE IF 2 * r > den THEN q + 1
        ELSE IF q % 2 = 0 THEN q ELSE q + 1

Max2(a, b) == IF a >= b THEN a ELSE b

\* lines 180-182: the keys of by_opp, in insertion order
RECURSIVE OppKeys(_)
OppKeys(rows) ==
    IF rows = <<>> THEN <<>>
    ELSE LET init == OppKeys(SubSeq(rows, 1, Len(rows) - 1))
             k == rows[Len(rows)].opponent
         IN  IF k \in Range(init) THEN init ELSE Append(init, k)

\* by_opp[opp]
ItemsOf(rows, opp) == SelectSeq(rows, LAMBDA r : r.opponent = opp)

CountResult(items, res) == Len(SelectSeq(items, LAMBDA r : r.result = res))

SumCycles(items) == SeqSum([i \in 1..Len(items) |-> items[i].cycles])

\* lines 186-204: the summary row of one opponent
SummaryRow(opp, items) ==
    LET wins == CountResult(items, "win")
        losses == CountResult(items, "loss")
        ties == CountResult(items, "tie")
        games == Len(items)
    IN  [ opponent |-> opp, games |-> games, wins |-> wins,
          losses |-> losses, ties |-> ties,
          win_rate |-> RoundDiv(wins, Max2(games, 1), 10000),
          score |-> RoundDiv(2 * wins + ties, 2 * Max2(games, 1), 10000),
          avg_cycles |-> RoundDiv(SumCycles(items), Max2(games, 1), 100) ]

\* list.sort(key=...) of line 205: a stable sort by opponent key
RECURSIVE InsertSorted(_, _)
InsertSorted(sorted, x) ==
    IF sorted = <<>> THEN <<x>>
    ELSE IF StrLess(x.opponent, Head(sorted).opponent) THEN <<x>> \o sorted
    ELSE <<Head(sorted)>> \o InsertSorted(Tail(sorted), x)

RECURSIVE SortByOpponent(_)
SortByOpponent(s) ==
    IF s = <<>> THEN <<>>
    ELSE InsertSorted(SortByOpponent(SubSeq(s, 1, Len(s) - 1)), s[Len(s)])

\* lines 184-204: the list before it is sorted
Unsorted(rows) ==
    LET keys == OppKeys(rows)
    IN  [i \in 1..Len(keys) |-> SummaryRow(keys[i], ItemsOf(rows, keys[i]))]

summarize_unsorted(rows) == Unsorted(rows)

summarize(rows) == SortByOpponent(Unsorted(rows))

-----------------------------------------------------------------------------
(* The files the run touches.  A file is [name, gen]: gen is "old" for     *)
(* content left by an earlier run and "new" for content this run wrote.    *)
(* Class files and archive entries are named by character strings.         *)

SeqsUpTo(S, n) == UNION {[1..k -> S] : k \in 0..n}

File(n, g) == [name |-> n, gen |-> g]

Names(files) == {f.name : f \in files}

\* writing files into a directory replaces the files of the same name
Overwrite(files, written) ==
    {f \in files : f.name \notin Names(written)} \cup written

Absent == [exists |-> FALSE, files |-> {}]

Present(files) == [exists |-> TRUE, files |-> files]

ClassPZ == <<"p", ".", "Z">>
ClassQ == <<"Q">>
BotClasses == {ClassPZ, ClassQ}

EntryPZ == <<"p", "/", "Z">> \o DotClass
EntryDotted == <<"p", ".", "Z">> \o DotClass
EntryQ == <<"Q">> \o DotClass
EntryStale == <<"S">> \o DotClass
Manifest == <<"M", "F">>

\* what javac makes of the bot source: the class files, by relative path
CompiledSets == {{EntryPZ}, {EntryQ}}

MarkerClass == "rts/MicroRTS.class"
RunnerClass == "eval/MatchRunner.class"
RunnerStale == "eval/Stale.class"

ExistingDirs == {"../microrts"}
ExistingSources == {"alli.java"}

\* a resolved map path: relative arguments are joined to the engine root
MapPath(root, name) == [root |-> root, name |-> name]

ExistingMaps == {MapPath("../microrts", "a.xml"), MapPath("/", "b.xml")}

\* one comma separated piece of --maps, after strip(): "" when blank
MapToken(text, abs) == [text |-> text, abs |-> abs]

MapTokens ==
    { MapToken("a.xml", FALSE), MapToken("b.xml", TRUE),
      MapToken("nomap.xml", FALSE), MapToken("", FALSE) }

\* one comma separated piece of --opponents, after strip(): "" when blank
KeyTokens == {"random", "coac", "bogus", ""}

\* jar_has_class (lines 58-63)
jar_has_class(jar_file, class_name) ==
    IF ~jar_file.exists THEN FALSE
    ELSE class_to_jar_entry(class_name) \in Names(jar_file.files)

-----------------------------------------------------------------------------
(* main (lines 293-489), up to the match stage.                            *)

Abort(e) == pc' = "aborted" /\ err' = e

runVars == <<map_paths, selected_keys, rounds, tracking, all_rows, match_index,
             oi, mi, ri, invoked, summary_rows, csv>>
argVars == <<microrts_dir, bot_source, no_rebuild, skip_copy, bot_class>>
fsVars == <<engine_bin, build_dir, jar, bots_lib, eval_bin, removed>>

\* the arguments that the build stage reads, and the disk an earlier run or a
\* fresh checkout leaves
MainInit ==
    /\ pc = "check_dir"
    /\ err = ""
    /\ microrts_dir \in {"../microrts", "../nodir"}
    /\ bot_source \in {"alli.java", "nosuch.java"}
    /\ no_rebuild \in BOOLEAN
    /\ skip_copy \in BOOLEAN
    /\ bot_class \in BotClasses
    /\ engine_bin \in {{}, {MarkerClass}}
    /\ build_dir \in {Absent, Present({File(EntryStale, "old"), File(EntryPZ, "old")})}
    /\ jar \in { Absent,
                 Present({File(Manifest, "old"), File(EntryPZ, "old")}),
                 Present({File(Manifest, "old"), File(EntryDotted, "old")}) }
    /\ bots_lib = Absent
    /\ eval_bin \in {Absent, Present({File(RunnerClass, "old"), File(RunnerStale, "old")})}
    /\ removed = {}
    /\ map_paths = <<>>
    /\ selected_keys = <<>>
    /\ rounds = 0
    /\ tracking = <<>>
    /\ all_rows = <<>>
    /\ match_index = 0
    /\ oi = 0 /\ mi = 0 /\ ri = 0
    /\ invoked = <<>>
    /\ summary_rows = <<>>
    /\ csv = {}

\* lines 316-319
CheckDir ==
    /\ pc = "check_dir"
    /\ IF microrts_dir \notin ExistingDirs
       THEN Abort("FileNotFoundError")
       ELSE pc' = "ensure_compiled" /\ err' = err
    /\ UNCHANGED <<argVars, fsVars, runVars>>

\* ensure_microrts_compiled (lines 45-51), called at line 321
EnsureCompiled ==
    /\ pc = "ensure_compiled"
    /\ IF MarkerClass \in engine_bin
       THEN pc' = "build_bot" /\ err' = err /\ engine_bin' = engine_bin
       ELSE \E javac_ok \in BOOLEAN :
               IF javac_ok
               THEN /\ engine_bin' = engine_bin \cup {MarkerClass}
                    /\ pc' = "build_bot" /\ err' = err
               ELSE Abort("RuntimeError") /\ engine_bin' = engine_bin
    /\ UNCHANGED <<argVars, build_dir, jar, bots_lib, eval_bin, removed, runVars>>

KeepBuildDir(dir) == Present(dir.files)

\* lines 77-80: rmtree of a build directory that exists, then mkdir
CleanBuildDir(dir) == Present({})

\* lines 88-96: the archive is written anew from the manifest and every class
\* file under the build directory
PackJar(dir) == Present({File(Manifest, "new")} \cup dir.files)

\* lines 324-331 with build_bot_jar_from_source (lines 66-101)
BuildBot ==
    /\ pc = "build_bot"
    /\ IF no_rebuild
       THEN pc' = "check_jar" /\ err' = err /\ UNCHANGED <<build_dir, jar, removed>>
       ELSE IF bot_source \notin ExistingSources
       THEN Abort("FileNotFoundError") /\ UNCHANGED <<build_dir, jar, removed>>
       ELSE \E javac_ok \in BOOLEAN, classes \in CompiledSets :
               LET clean == CleanBuildDir(build_dir)
                   gone == build_dir.files \ clean.files
                   built == Present(Overwrite(clean.files,
                                              {File(c, "new") : c \in classes}))
               IN  IF ~javac_ok
                   THEN /\ Abort("RuntimeError")
                        /\ build_dir' = clean /\ jar' = jar
                        /\ removed' = removed \cup gone
                   ELSE /\ build_dir' = built
                        /\ jar' = PackJar(built)
                        /\ removed' = removed \cup gone \cup jar.files
                        /\ IF ~jar_has_class(PackJar(built), bot_class)
                           THEN Abort("RuntimeError")
                           ELSE pc' = "check_jar" /\ err' = err
    /\ UNCHANGED <<argVars, engine_bin, bots_lib, eval_bin, runVars>>

\* lines 333-340
CheckJar ==
    /\ pc = "check_jar"
    /\ IF ~jar.exists THEN Abort("FileNotFoundError")
       ELSE IF ~jar_has_class(jar, bot_class) THEN Abort("RuntimeError")
       ELSE pc' = "copy_jar" /\ err' = err
    /\ UNCHANGED <<argVars, fsVars, runVars>>

\* lines 342-346: copy2 fails when microrts/lib/bots is not there
CopyJar ==
    /\ pc = "copy_jar"
    /\ IF skip_copy
       THEN pc' = "compile_runner" /\ err' = err /\ bots_lib' = bots_lib
       ELSE \E copy_ok \in BOOLEAN :
               IF copy_ok
               THEN bots_lib' = jar /\ pc' = "compile_runner" /\ err' = err
               ELSE Abort("FileNotFoundError") /\ bots_lib' = bots_lib
    /\ UNCHANGED <<argVars, engine_bin, build_dir, jar, eval_bin, removed, runVars>>

\* line 107: mkdir(parents=True, exist_ok=True) keeps what is there
MakeOutDir(dir) == Present(dir.files)

\* compile_match_runner (lines 104-116), called at line 348
CompileRunner ==
    /\ pc = "compile_runner"
    /\ \E javac_ok \in BOOLEAN :
          IF javac_ok
          THEN /\ eval_bin' = Present(Overwrite(MakeOutDir(eval_bin).files,
                                                {File(RunnerClass, "new")}))
               /\ pc' = "resolve_maps" /\ err' = err
          ELSE eval_bin' = MakeOutDir(eval_bin) /\ Abort("RuntimeError")
    /\ UNCHANGED <<argVars, engine_bin, build_dir, jar, bots_lib, removed, runVars>>

\* lines 121-124: the tokens that are not blank, each made a path
Resolve(tok) ==
    IF tok.abs THEN MapPath("/", tok.text) ELSE MapPath(microrts_dir, tok.text)

NonBlankMaps(tokens) == SelectSeq(tokens, LAMBDA t : t.text # "")

\* resolve_maps (lines 119-128), called at line 349 on args.maps
ResolveMaps ==
    /\ pc = "resolve_maps"
    /\ \E tokens \in SeqsUpTo(MapTokens, MaxTokens) :
          LET raw == NonBlankMaps(tokens)
              out == [i \in 1..Len(raw) |-> Resolve(raw[i])]
          IN  IF \E i \in 1..Len(out) : out[i] \notin ExistingMaps
              THEN Abort("FileNotFoundError") /\ map_paths' = map_paths
              ELSE map_paths' = out /\ pc' = "select_keys" /\ err' = err
    /\ UNCHANGED <<argVars, fsVars, selected_keys, rounds, tracking, all_rows,
                   match_index, oi, mi, ri, invoked, summary_rows, csv>>

NoUnknownKeys(keys) == <<>>

\* line 352
UnknownKeys(keys) == SelectSeq(keys, LAMBDA k : k \notin DOMAIN BENCHMARKS)

\* lines 351-354, on args.opponents
SelectKeys ==
    /\ pc = "select_keys"
    /\ \E tokens \in SeqsUpTo(KeyTokens, MaxTokens) :
          LET keys == SelectSeq(tokens, LAMBDA t : t # "")
          IN  /\ selected_keys' = keys
              /\ IF UnknownKeys(keys) # <<>>
                 THEN Abort("ValueError")
                 ELSE pc' = "wandb_init" /\ err' = err
    /\ UNCHANGED <<argVars, fsVars, map_paths, rounds, tracking, all_rows,
                   match_index, oi, mi, ri, invoked, summary_rows, csv>>

\* whether the loops of lines 374-377 have no iteration at all
NoIteration(keys, maps, r) == keys = <<>> \/ maps = <<>> \/ r <= 0

\* lines 374-377: where the run stands once the loops are entered
LoopEntry(keys, maps, r) ==
    IF NoIteration(keys, maps, r)
    THEN [pc |-> "summarize", o |-> 0, m |-> 0, r |-> 0]
    ELSE [pc |-> "match_a", o |-> 1, m |-> 1, r |-> 0]

\* lines 356-377: the tracking run is initialized, the counters are set and the
\* loops are entered; args.rounds is any integer
WandbInit ==
    /\ pc = "wandb_init"
    /\ \E r \in -1..MaxRounds :
          LET entry == LoopEntry(selected_keys, map_paths, r)
          IN  /\ 2 * r * Len(map_paths) * Len(selected_keys) <= MaxMatches
              /\ rounds' = r
              /\ pc' = entry.pc
              /\ oi' = entry.o /\ mi' = entry.m /\ ri' = entry.r
    /\ tracking' = Append(tracking, "init")
    /\ all_rows' = <<>>
    /\ match_index' = 0
    /\ UNCHANGED <<err, argVars, fsVars, map_paths, selected_keys, invoked,
                   summary_rows, csv>>

-----------------------------------------------------------------------------
(* The match stage (lines 374-448).                                        *)

\* what the match subprocess can do: its exit code and its captured output
Proc(code, out) == [returncode |-> code, stdout |-> out]

MatchProcs ==
    {Proc(1, <<LNoise>>), Proc(0, <<LNoise>>)} \cup
    {Proc(0, <<LNoise, l>>) : l \in ResultLines}

run_match_default(proc) ==
    IF proc.returncode # 0 \/ ~parse_result(proc.stdout).ok
    THEN Returned(-1, 0, FALSE)
    ELSE parse_result(proc.stdout)

\* run_cmd (lines 33-42) and run_match (lines 144-176) on that subprocess
run_match(proc) ==
    IF proc.returncode # 0 THEN Raised("RuntimeError")
    ELSE parse_result(proc.stdout)

\* args.bot_class as an argument of the match helper
Candidate == "args.bot_class"

\* one call of run_match: its map and agents, and what the subprocess did
Invocation(map_path, ai1, ai2, proc) ==
    [map |-> map_path, ai1 |-> ai1, ai2 |-> ai2, proc |-> proc]

outcome_a_draw(winner) ==
    IF winner = 0 THEN "win" ELSE IF winner = 1 THEN "loss" ELSE "draw"

\* line 390
outcome_a(winner) ==
    IF winner = 0 THEN "win" ELSE IF winner = 1 THEN "loss" ELSE "tie"

outcome_b_unswapped(winner) ==
    IF winner = 0 THEN "win" ELSE IF winner = 1 THEN "loss" ELSE "tie"

\* line 426
outcome_b(winner) ==
    IF winner = 1 THEN "win" ELSE IF winner = 0 THEN "loss" ELSE "tie"

\* lines 391-400 and 427-436
Row(index, opp_key, map_path, round_idx, side, result, outcome) ==
    [ match_index |-> index, opponent |-> opp_key, map |-> map_path.name,
      round |-> round_idx, alli_side |-> side, winner |-> result.winner,
      cycles |-> result.cycles, result |-> outcome ]

\* lines 412 and 448
NextIndex(index) == index + 1

\* lines 378-412: the candidate as player 0
MatchA ==
    /\ pc = "match_a"
    /\ \E proc \in MatchProcs :
          LET opp_key == selected_keys[oi]
              map_path == map_paths[mi]
              result_a == run_match(proc)
          IN  /\ invoked' = Append(invoked,
                                   Invocation(map_path, Candidate, BENCHMARKS[opp_key], proc))
              /\ IF ~result_a.ok
                 THEN /\ Abort(result_a.err)
                      /\ UNCHANGED <<all_rows, tracking, match_index>>
                 ELSE /\ all_rows' = Append(all_rows,
                            Row(match_index, opp_key, map_path, ri, 0, result_a,
                                outcome_a(result_a.winner)))
                      /\ tracking' = Append(tracking, "log_match")
                      /\ match_index' = NextIndex(match_index)
                      /\ pc' = "match_b" /\ err' = err
    /\ UNCHANGED <<argVars, fsVars, map_paths, selected_keys, rounds, oi, mi, ri,
                   summary_rows, csv>>

Pos(o, m, r) == [o |-> o, m |-> m, r |-> r]

LoopsDone == Pos(0, 0, 0)

NextPosMapsOuter(o, m, r) ==
    IF r + 1 < rounds THEN Pos(o, m, r + 1)
    ELSE IF o < Len(selected_keys) THEN Pos(o + 1, m, 0)
    ELSE IF m < Len(map_paths) THEN Pos(1, m + 1, 0)
    ELSE LoopsDone

\* the three for statements of lines 374-377, after an iteration
NextPos(o, m, r) ==
    IF r + 1 < rounds THEN Pos(o, m, r + 1)
    ELSE IF m < Len(map_paths) THEN Pos(o, m + 1, 0)
    ELSE IF o < Len(selected_keys) THEN Pos(o + 1, 1, 0)
    ELSE LoopsDone

\* lines 414-448: the candidate as player 1, then the next iteration
MatchB ==
    /\ pc = "match_b"
    /\ \E proc \in MatchProcs :
          LET opp_key == selected_keys[oi]
              map_path == map_paths[mi]
              result_b == run_match(proc)
              next == NextPos(oi, mi, ri)
          IN  /\ invoked' = Append(invoked,
                                   Invocation(map_path, BENCHMARKS[opp_key], Candidate, proc))
              /\ IF ~result_b.ok
                 THEN /\ Abort(result_b.err)
                      /\ UNCHANGED <<all_rows, tracking, match_index, oi, mi, ri>>
                 ELSE /\ all_rows' = Append(all_rows,
                            Row(match_index, opp_key, map_path, ri, 1, result_b,
                                outcome_b(result_b.winner)))
                      /\ tracking' = Append(tracking, "log_match")
                      /\ match_index' = NextIndex(match_index)
                      /\ oi' = next.o /\ mi' = next.m /\ ri' = next.r
                      /\ pc' = IF next = LoopsDone THEN "summarize" ELSE "match_a"
                      /\ err' = err
    /\ UNCHANGED <<argVars, fsVars, map_paths, selected_keys, rounds,
                   summary_rows, csv>>

-----------------------------------------------------------------------------
(* Aggregation and reporting (lines 450-481).                              *)

\* line 450
Summarize ==
    /\ pc = "summarize"
    /\ summary_rows' = summarize(all_rows)
    /\ pc' = "write_csv"
    /\ UNCHANGED <<err, argVars, fsVars, map_paths, selected_keys, rounds,
                   tracking, all_rows, match_index, oi, mi, ri, invoked, csv>>

write_csv_always(files, path, rows) == files \cup {path}

\* write_csv (lines 209-216): nothing is written for an empty list
write_csv(files, path, rows) == IF rows = <<>> THEN files ELSE files \cup {path}

\* lines 452-454
WriteCsv ==
    /\ pc = "write_csv"
    /\ csv' = write_csv(write_csv(csv, "match_results.csv", all_rows),
                        "summary.csv", summary_rows)
    /\ pc' = "tables"
    /\ UNCHANGED <<err, argVars, fsVars, map_paths, selected_keys, rounds,
                   tracking, all_rows, match_index, oi, mi, ri, invoked,
                   summary_rows>>

\* lines 456-471: all_rows[0] and summary_rows[0] are read
LogTables ==
    /\ pc = "tables"
    /\ IF all_rows = <<>> \/ summary_rows = <<>>
       THEN Abort("IndexError") /\ tracking' = tracking
       ELSE /\ tracking' = Append(tracking, "log_tables")
            /\ pc' = "plots" /\ err' = err
    /\ UNCHANGED <<argVars, fsVars, map_paths, selected_keys, rounds, all_rows,
                   match_index, oi, mi, ri, invoked, summary_rows, csv>>

\* lines 473-479: both plot helpers give nothing when matplotlib is missing
Plots ==
    /\ pc = "plots"
    /\ \E matplotlib \in BOOLEAN :
          IF matplotlib
          THEN /\ csv' = csv \cup {"win_rate_by_opponent.png", "head_to_head"}
               /\ tracking' = tracking \o <<"log_win_rate_png", "log_head_to_head">>
          ELSE csv' = csv /\ tracking' = tracking
    /\ pc' = "finish"
    /\ UNCHANGED <<err, argVars, fsVars, map_paths, selected_keys, rounds,
                   all_rows, match_index, oi, mi, ri, invoked, summary_rows>>

\* line 481
Finish ==
    /\ pc = "finish"
    /\ tracking' = Append(tracking, "finish")
    /\ pc' = "done"
    /\ UNCHANGED <<err, argVars, fsVars, map_paths, selected_keys, rounds,
                   all_rows, match_index, oi, mi, ri, invoked, summary_rows, csv>>

-----------------------------------------------------------------------------
(* The specifications.                                                     *)

ParseIdle == p_out = <<>> /\ p_res = <<>>
SumIdle == s_rows = <<>> /\ s_res = <<>>

Init == MainInit /\ ParseIdle /\ SumIdle

Next ==
    \/ CheckDir /\ UNCHANGED <<parseVars, sumVars>>
    \/ EnsureCompiled /\ UNCHANGED <<parseVars, sumVars>>
    \/ BuildBot /\ UNCHANGED <<parseVars, sumVars>>
    \/ CheckJar /\ UNCHANGED <<parseVars, sumVars>>
    \/ CopyJar /\ UNCHANGED <<parseVars, sumVars>>
    \/ CompileRunner /\ UNCHANGED <<parseVars, sumVars>>
    \/ ResolveMaps /\ UNCHANGED <<parseVars, sumVars>>
    \/ SelectKeys /\ UNCHANGED <<parseVars, sumVars>>
    \/ WandbInit /\ UNCHANGED <<parseVars, sumVars>>
    \/ MatchA /\ UNCHANGED <<parseVars, sumVars>>
    \/ MatchB /\ UNCHANGED <<parseVars, sumVars>>
    \/ Summarize /\ UNCHANGED <<parseVars, sumVars>>
    \/ WriteCsv /\ UNCHANGED <<parseVars, sumVars>>
    \/ LogTables /\ UNCHANGED <<parseVars, sumVars>>
    \/ Plots /\ UNCHANGED <<parseVars, sumVars>>
    \/ Finish /\ UNCHANGED <<parseVars, sumVars>>

Spec == Init /\ [][Next]_vars

\* the disk and the arguments after a build stage that succeeded on a fresh
\* checkout
Built ==
    /\ err = ""
    /\ microrts_dir = "../microrts" /\ bot_source = "alli.java"
    /\ no_rebuild = FALSE /\ skip_copy = FALSE /\ bot_class = ClassPZ
    /\ engine_bin = {MarkerClass}
    /\ build_dir = Present({File(EntryPZ, "new")})
    /\ jar = PackJar(Present({File(EntryPZ, "new")}))
    /\ bots_lib = PackJar(Present({File(EntryPZ, "new")}))
    /\ eval_bin = Present({File(RunnerClass, "new")})
    /\ removed = {}

\* the run at line 374, with any accepted opponents, maps and rounds whose
\* schedule is within MaxSchedule
MatchInit ==
    /\ Built /\ ParseIdle /\ SumIdle
    /\ map_paths \in SeqsUpTo(ExistingMaps, MaxTokens)
    /\ selected_keys \in SeqsUpTo({"random", "coac"}, MaxTokens)
    /\ rounds \in -1..MaxRounds
    /\ 2 * rounds * Len(map_paths) * Len(selected_keys) <= MaxSchedule
    /\ pc = LoopEntry(selected_keys, map_paths, rounds).pc
    /\ oi = LoopEntry(selected_keys, map_paths, rounds).o
    /\ mi = LoopEntry(selected_keys, map_paths, rounds).m
    /\ ri = LoopEntry(selected_keys, map_paths, rounds).r
    /\ tracking = <<"init">>
    /\ all_rows = <<>> /\ match_index = 0
    /\ invoked = <<>> /\ summary_rows = <<>> /\ csv = {}

MatchNext ==
    \/ MatchA /\ UNCHANGED <<parseVars, sumVars>>
    \/ MatchB /\ UNCHANGED <<parseVars, sumVars>>
    \/ Summarize /\ UNCHANGED <<parseVars, sumVars>>
    \/ WriteCsv /\ UNCHANGED <<parseVars, sumVars>>
    \/ LogTables /\ UNCHANGED <<parseVars, sumVars>>
    \/ Plots /\ UNCHANGED <<parseVars, sumVars>>
    \/ Finish /\ UNCHANGED <<parseVars, sumVars>>

SpecMatch == MatchInit /\ [][MatchNext]_vars

\* main() before it starts, for the specifications of the pure functions
MainIdle ==
    /\ pc = "idle" /\ err = ""
    /\ microrts_dir = "../microrts" /\ bot_source = "alli.java"
    /\ no_rebuild = FALSE /\ skip_copy = FALSE /\ bot_class = ClassPZ
    /\ engine_bin = {} /\ build_dir = Absent /\ jar = Absent
    /\ bots_lib = Absent /\ eval_bin = Absent /\ removed = {}
    /\ map_paths = <<>> /\ selected_keys = <<>> /\ rounds = 0
    /\ tracking = <<>> /\ all_rows = <<>> /\ match_index = 0
    /\ oi = 0 /\ mi = 0 /\ ri = 0
    /\ invoked = <<>> /\ summary_rows = <<>> /\ csv = {}

\* parse_result on any captured output of up to MaxLines lines
ParseInit ==
    /\ MainIdle /\ SumIdle
    /\ p_out \in SeqsUpTo(ParseLines, MaxLines)
    /\ p_res = <<>>

ParseResult ==
    /\ p_res = <<>>
    /\ p_res' = <<parse_result(p_out)>>
    /\ UNCHANGED <<mainVars, sumVars, p_out>>

ParseNext == ParseResult

SpecParse == ParseInit /\ [][ParseNext]_vars

\* the records summarize is tried on: any opponent with any result
SumRows ==
    [ match_index : {0}, opponent : {"coac", "random", "worker_rush"},
      map : {"a.xml"}, round : {0}, alli_side : {0}, winner : {0},
      cycles : {100, 341}, result : {"win", "loss", "tie"} ]

SumInit ==
    /\ MainIdle /\ ParseIdle
    /\ s_rows \in SeqsUpTo(SumRows, MaxRows)
    /\ s_res = <<>>

SummarizeRows ==
    /\ s_res = <<>>
    /\ s_res' = <<summarize(s_rows)>>
    /\ UNCHANGED <<mainVars, parseVars, s_rows>>

SumNext == SummarizeRows

SpecSum == SumInit /\ [][SumNext]_vars

-----------------------------------------------------------------------------
(* The claims.                                                             *)

\* the match stage is over and line 450 has built the summary
MatchStageDone ==
    \/ pc \in {"write_csv", "tables", "plots", "finish", "done"}
    \/ pc = "aborted" /\ err = "IndexError"

Occurrences(k, seq) == Cardinality({i \in 1..Len(seq) : seq[i] = k})

SummaryIdx(k) == {i \in 1..Len(summary_rows) : summary_rows[i].opponent = k}

\* C1, as stated: after the match stage, with rounds >= 0, every opponent's
\* summary has wins + losses + ties = games and games = 2 * rounds * (number
\* of maps), for any accepted list of opponent keys.
C1_Original ==
    (MatchStageDone /\ rounds >= 0) =>
        \A k \in Range(selected_keys) : \A i \in SummaryIdx(k) :
            LET s == summary_rows[i]
            IN  /\ s.wins + s.losses + s.ties = s.games
                /\ s.games = 2 * rounds * Len(map_paths)

\* C1, amended: after the match stage, with rounds >= 0, every summary row
\* belongs to an opponent key of the list, and an opponent key has exactly one
\* row, with wins + losses + ties = games and games = 2 * rounds * (length of
\* the resolved map list) * (number of times the key occurs in the opponent
\* list); when that product is 0 the key has no row.
C1_GamesPerOpponent ==
    (MatchStageDone /\ rounds >= 0) =>
        /\ \A i \in 1..Len(summary_rows) :
              summary_rows[i].opponent \in Range(selected_keys)
        /\ \A k \in Range(selected_keys) :
              LET expected == 2 * rounds * Len(map_paths)
                                * Occurrences(k, selected_keys)
              IN  IF expected = 0 THEN SummaryIdx(k) = {}
                  ELSE /\ Cardinality(SummaryIdx(k)) = 1
                       /\ \A i \in SummaryIdx(k) :
                             LET s == summary_rows[i]
                             IN  /\ s.games = expected
                                 /\ s.wins + s.losses + s.ties = s.games

\* an opponent key given twice, on two maps: 8 games in its one summary row
C1_Witness ==
    /\ MatchStageDone
    /\ selected_keys = <<"random", "random">>
    /\ Len(map_paths) = 2 /\ rounds = 1
    /\ Len(summary_rows) = 1
    /\ summary_rows[1].games = 8

\* the iteration that the record of index idx belongs to, counted in the
\* order opponents, maps, rounds, sides
SlotOf(idx) ==
    LET R == rounds
        M == Len(map_paths)
    IN  [ side |-> idx % 2,
          round |-> (idx \div 2) % R,
          m |-> ((idx \div (2 * R)) % M) + 1,
          o |-> (idx \div (2 * R * M)) + 1 ]

ScheduleSize ==
    IF NoIteration(selected_keys, map_paths, rounds) THEN 0
    ELSE 2 * rounds * Len(map_paths) * Len(selected_keys)

\* C2: the k-th record (from 0) has match_index k and is the record of the
\* k-th match of the order opponents, maps, rounds, side 0 then side 1; the
\* k-th invocation is that match, with the candidate first for side 0 and
\* second for side 1; every invocation that succeeds gives one record; a
\* match stage that completes has run the whole schedule.
C2_ScheduleOrder ==
    /\ match_index = Len(all_rows)
    /\ Len(invoked) \in {Len(all_rows), Len(all_rows) + 1}
    /\ Len(all_rows) <= ScheduleSize
    /\ \A k \in 1..Len(all_rows) :
          LET s == SlotOf(k - 1)
              row == all_rows[k]
              inv == invoked[k]
              opp_class == BENCHMARKS[selected_keys[s.o]]
          IN  /\ row.match_index = k - 1
              /\ row.opponent = selected_keys[s.o]
              /\ row.map = map_paths[s.m].name
              /\ row.round = s.round
              /\ row.alli_side = s.side
              /\ inv.map = map_paths[s.m]
              /\ inv.ai1 = (IF s.side = 0 THEN Candidate ELSE opp_class)
              /\ inv.ai2 = (IF s.side = 0 THEN opp_class ELSE Candidate)
    /\ (pc \in {"summarize", "write_csv", "tables", "plots", "finish", "done"}
          => Len(all_rows) = ScheduleSize)

\* two opponents on two maps: the third record is the first opponent on the
\* second map
C2_Witness ==
    /\ pc = "summarize"
    /\ selected_keys = <<"random", "coac">>
    /\ Len(map_paths) = 2 /\ map_paths[1] # map_paths[2]
    /\ rounds = 1
    /\ Len(all_rows) = 8
    /\ all_rows[3].opponent = "random" /\ all_rows[3].map = map_paths[2].name
    /\ all_rows[3].match_index = 2 /\ all_rows[8].match_index = 7

\* the winner that the subprocess of an invocation printed
PrintedWinner(inv) == inv.proc.stdout[Len(inv.proc.stdout)].obj.winner.v

\* C3: every record holds the printed winner and is a win when the winner
\* is the candidate's side, a loss when it is the other side and a tie for
\* any other winner; an opponent all of whose matches were won by the
\* candidate's side has wins = games, losses = 0 and win_rate = 1.
C3_Classification ==
    /\ \A k \in 1..Len(all_rows) :
          LET row == all_rows[k]
          IN  /\ row.winner = PrintedWinner(invoked[k])
              /\ row.alli_side \in {0, 1}
              /\ row.result = (IF row.winner = row.alli_side THEN "win"
                               ELSE IF row.winner = 1 - row.alli_side THEN "loss"
                               ELSE "tie")
    /\ MatchStageDone =>
          \A i \in 1..Len(summary_rows) :
              LET s == summary_rows[i]
                  mine == {k \in 1..Len(all_rows) : all_rows[k].opponent = s.opponent}
              IN  (\A k \in mine : all_rows[k].winner = all_rows[k].alli_side)
                      => /\ s.games = Cardinality(mine)
                         /\ s.wins = s.games
                         /\ s.losses = 0
                         /\ s.win_rate = 10000

\* one opponent, one map, two rounds, all four matches won on both sides
C3_Witness ==
    /\ pc = "done"
    /\ selected_keys = <<"random">> /\ Len(map_paths) = 1 /\ rounds = 2
    /\ Len(all_rows) = 4
    /\ \A k \in 1..4 : all_rows[k].winner = all_rows[k].alli_side
    /\ all_rows[2].alli_side = 1 /\ all_rows[2].result = "win"
    /\ summary_rows[1].wins = 4 /\ summary_rows[1].losses = 0
    /\ summary_rows[1].win_rate = 10000

\* the subprocess exits non-zero, or no line of its output is a result line
ProcFailed(proc) ==
    \/ proc.returncode # 0
    \/ \A i \in 1..Len(proc.stdout) :
          ~(proc.stdout[i].json = "object" /\ proc.stdout[i].obj.winner.t # "absent")

ReportFiles == {"match_results.csv", "summary.csv"}

\* C5: an invocation that failed is the last one of the run (no retry, no
\* later match), the run is aborted, the failed match has no record, and no
\* report file was written and no end-of-run table logged.
C5_AbortOnFailure ==
    \A k \in 1..Len(invoked) :
        ProcFailed(invoked[k].proc) =>
            /\ k = Len(invoked)
            /\ pc = "aborted"
            /\ Len(all_rows) = k - 1
            /\ csv = {}
            /\ summary_rows = <<>>
            /\ "log_tables" \notin Range(tracking)
            /\ "finish" \notin Range(tracking)

\* the fourth match fails after three records were gathered
C5_Witness ==
    /\ pc = "aborted"
    /\ Len(invoked) = 4 /\ Len(all_rows) = 3
    /\ ProcFailed(invoked[4].proc)
    /\ invoked[4].proc.returncode = 0
    /\ csv = {}

\* the lines of the output that are JSON objects with a winner key
ResultIdx(out) ==
    {i \in 1..Len(out) : out[i].json = "object" /\ out[i].obj.winner.t # "absent"}

\* the lines of the output that pass the test of line 134
CandidateIdx(out) == {i \in 1..Len(out) : out[i].brace /\ out[i].text}

MaxOf(S) == CHOOSE x \in S : \A y \in S : y <= x

\* a JSON object whose winner and cycles int() accepts and that has game_over
Decodable(line) ==
    /\ line.json = "object"
    /\ line.obj.winner.t \in {"int", "float", "bool", "str_num"}
    /\ line.obj.cycles.t \in {"int", "float", "bool", "str_num"}
    /\ line.obj.game_over.t # "absent"

Decoded(line) ==
    Returned(PyInt(line.obj.winner), PyInt(line.obj.cycles),
             PyBool(line.obj.game_over))

\* C4, as stated: parse_result returns the values of the last line that is a
\* JSON object with a winner key, whatever the other lines are, and fails
\* when the output has no such line.
C4_Original ==
    p_res # <<>> =>
        IF ResultIdx(p_out) = {} THEN ~p_res[1].ok
        ELSE LET line == p_out[MaxOf(ResultIdx(p_out))]
             IN  Decodable(line) => p_res[1] = Decoded(line)

\* C4, amended: parse_result looks only at the last line that, stripped,
\* starts with "{" and contains the text "winner" in double quotes, whatever
\* the lines before it are and whatever the lines after it that are not of
\* that shape.  It returns int(winner), int(cycles) and bool(game_over) of
\* that line when the line is a JSON object with the three keys whose winner
\* and cycles int() accepts, and fails otherwise, without falling back to an
\* earlier line.  With no line of that shape it fails with the parse error.
\* It never returns a default result.
C4_LastCandidateLine ==
    p_res # <<>> =>
        IF CandidateIdx(p_out) = {} THEN p_res[1] = Raised(NoJSONResult)
        ELSE LET line == p_out[MaxOf(CandidateIdx(p_out))]
             IN  IF Decodable(line) THEN p_res[1] = Decoded(line)
                 ELSE ~p_res[1].ok /\ p_res[1].err # NoJSONResult

\* two result lines and a trailing noise line: the second one is returned
C4_Witness ==
    /\ p_out = << LResult(JInt(0), JInt(340), JBool(1)),
                  LResult(JInt(1), JInt(12), JBool(0)), LNoise >>
    /\ p_res = <<Returned(1, 12, FALSE)>>

\* the archive entry that holds the target class
TargetEntry == IF bot_class = ClassPZ THEN EntryPZ ELSE EntryQ

\* every check and build step of lines 316-354 has succeeded
ChecksPassed ==
    /\ microrts_dir \in ExistingDirs
    /\ MarkerClass \in engine_bin
    /\ ~no_rebuild =>
          /\ bot_source \in ExistingSources
          /\ File(TargetEntry, "new") \in build_dir.files
          /\ File(TargetEntry, "new") \in jar.files
    /\ jar.exists
    /\ TargetEntry \in Names(jar.files)
    /\ ~skip_copy => bots_lib = jar
    /\ File(RunnerClass, "new") \in eval_bin.files
    /\ \A i \in 1..Len(map_paths) : map_paths[i] \in ExistingMaps
    /\ \A i \in 1..Len(selected_keys) : selected_keys[i] \in DOMAIN BENCHMARKS

\* C6: the tracking service is called, and a match is invoked, only after
\* every configuration check and build step has succeeded; the first
\* tracking call is the initialization and comes before the first match.
C6_ChecksBeforeTracking ==
    /\ (tracking # <<>> \/ invoked # <<>>) => ChecksPassed
    /\ tracking # <<>> => tracking[1] = "init"
    /\ invoked # <<>> => tracking # <<>>

\* an unknown opponent key ends the run with nothing tracked and no match
C6_Witness ==
    /\ pc = "aborted" /\ err = "ValueError"
    /\ \E i \in 1..Len(selected_keys) : selected_keys[i] = "bogus"
    /\ File(RunnerClass, "new") \in eval_bin.files
    /\ tracking = <<>> /\ invoked = <<>>

\* the run has gone past the checks of lines 333-340
Proceeded ==
    \/ pc \in { "copy_jar", "compile_runner", "resolve_maps", "select_keys",
               "wandb_init", "match_a", "match_b", "summarize", "write_csv",
               "tables", "plots", "finish", "done" }
    \/ bots_lib.exists
    \/ File(RunnerClass, "new") \in eval_bin.files
    \/ tracking # <<>>
    \/ invoked # <<>>

\* C7: with the skip flag the bot is not rebuilt (the archive and the build
\* directory are left as they were), and the run copies the archive, compiles
\* the helper or runs a match only if the archive exists and holds the target
\* class at package/path/ClassName.class.
C7_SkipFlagValidates ==
    no_rebuild =>
        /\ \A f \in jar.files \cup build_dir.files : f.gen = "old"
        /\ removed = {}
        /\ Proceeded => jar.exists /\ TargetEntry \in Names(jar.files)

\* a run with the skip flag that reused the earlier archive to the end
C7_Witness ==
    /\ no_rebuild /\ pc = "done"
    /\ File(EntryPZ, "old") \in jar.files
    /\ bots_lib = jar
    /\ invoked # <<>>

OppSet(rows) == {rows[i].opponent : i \in 1..Len(rows)}

CountOf(rows, opp, res) ==
    Cardinality({i \in 1..Len(rows) : rows[i].opponent = opp /\ rows[i].result = res})

\* C8: summarize gives one row per distinct opponent of the list, in
\* ascending key order, whose games, wins, losses and ties are the counts of
\* that opponent's records, with wins + losses + ties = games, win_rate and
\* score within [0, 1].
C8_Summarize ==
    s_res # <<>> =>
        LET out == s_res[1]
        IN  /\ Len(out) = Cardinality(OppSet(s_rows))
            /\ {out[i].opponent : i \in 1..Len(out)} = OppSet(s_rows)
            /\ \A i, j \in 1..Len(out) :
                  i < j => StrLess(out[i].opponent, out[j].opponent)
            /\ \A i \in 1..Len(out) :
                  LET s == out[i]
                  IN  /\ s.games = Cardinality({k \in 1..Len(s_rows) :
                                                  s_rows[k].opponent = s.opponent})
                      /\ s.wins = CountOf(s_rows, s.opponent, "win")
                      /\ s.losses = CountOf(s_rows, s.opponent, "loss")
                      /\ s.ties = CountOf(s_rows, s.opponent, "tie")
                      /\ s.wins + s.losses + s.ties = s.games
                      /\ 0 <= s.wins /\ s.wins <= s.games
                      /\ 0 <= 2 * s.wins + s.ties
                      /\ 2 * s.wins + s.ties <= 2 * s.games
                      /\ s.win_rate \in 0..10000
                      /\ s.score \in 0..10000

\* records of random before one of coac: coac comes first in the summary
C8_Witness ==
    /\ Len(s_rows) = 3
    /\ s_rows[1].opponent = "random" /\ s_rows[1].result = "tie"
    /\ s_rows[2].opponent = "coac" /\ s_rows[2].result = "win"
    /\ s_rows[3].opponent = "random" /\ s_rows[3].result = "win"
    /\ s_res # <<>>
    /\ Len(s_res[1]) = 2
    /\ s_res[1][1].opponent = "coac" /\ s_res[1][1].win_rate = 10000
    /\ s_res[1][2].opponent = "random" /\ s_res[1][2].games = 2
    /\ s_res[1][2].score = 7500

OldFiles(dir) == {f \in dir.files : f.gen = "old"}

MatchesStarted == pc \in {"match_a", "match_b"} \/ invoked # <<>>

\* C9, as stated: without the skip flag, when matches start nothing left by
\* an earlier run is in the bot build directory, the bot archive or the
\* match-helper output directory.
C9_Original ==
    (~no_rebuild /\ MatchesStarted) =>
        /\ OldFiles(build_dir) = {}
        /\ OldFiles(jar) = {}
        /\ OldFiles(eval_bin) = {}

\* C9, amended: without the skip flag, the bot build directory and the bot
\* archive of an earlier run are removed before the run produces them again,
\* so nothing left by an earlier run is in them when matches start.  The
\* match-helper output directory is not removed: it is created when missing
\* and compiled into, so files an earlier run left there that the compiler
\* does not overwrite are still present when matches start.
C9_BuildRecreated ==
    (~no_rebuild /\ MatchesStarted) =>
        /\ OldFiles(build_dir) = {}
        /\ OldFiles(jar) = {}
        /\ build_dir.exists /\ jar.exists
        /\ \A f \in removed : f.gen = "old"

\* an earlier run's build directory and archive were removed and rebuilt
C9_Witness ==
    /\ ~no_rebuild /\ pc = "match_b"
    /\ File(EntryStale, "old") \in removed
    /\ File(Manifest, "old") \in removed
    /\ build_dir = Present({File(EntryPZ, "new")})
    /\ jar = Present({File(Manifest, "new"), File(EntryPZ, "new")})

\* C10: the run is finalized only with at least one record, after both CSV
\* files were written and the tables logged; with an empty schedule the
\* match stage leaves no record, no CSV file is written and the run aborts
\* at the tables, after the tracking run was initialized and without
\* finalizing it.
C10_FinishNeedsRecords ==
    /\ (pc \in {"finish", "done"} \/ "finish" \in Range(tracking)) =>
          /\ all_rows # <<>>
          /\ ReportFiles \subseteq csv
          /\ "log_tables" \in Range(tracking)
          /\ \A j \in 1..Len(tracking) :
                tracking[j] = "finish" =>
                    \E i \in 1..(j - 1) : tracking[i] = "log_tables"
    /\ (tracking # <<>> /\ NoIteration(selected_keys, map_paths, rounds)) =>
          /\ all_rows = <<>> /\ invoked = <<>>
          /\ csv = {}
          /\ tracking = <<"init">>
          /\ pc \in {"summarize", "write_csv", "tables", "aborted"}
          /\ pc = "aborted" => err = "IndexError"

\* zero rounds: the run dies at the tables with the tracking run open
C10_Witness ==
    /\ pc = "aborted" /\ err = "IndexError"
    /\ rounds = 0 /\ selected_keys # <<>> /\ map_paths # <<>>
    /\ tracking = <<"init">>
    /\ csv = {}

=============================================================================
